---------------------------- MODULE Spec2Model ----------------------------
(***************************************************************************)
(* DashcamTools: the folder video player (dashcam_clips_viewer.py) and the *)
(* MP4 concatenator (concat_video_clips.py), as state machines.            *)
(*                                                                         *)
(*   Spec        the player: folder loads, stepping, the slider, the timer *)
(*   AtempoSpec  _build_atempo_chain, statement by statement               *)
(*   ParserSpec  the progress loop of run_ffmpeg_concat, line by line      *)
(*   ConcatSpec  the concatenator: form, Start, worker thread, Tk queue    *)
(*   AppsSpec    either program, as the user starts one or the other       *)
(*   NaturalSpec natural_keys, the sort key, on pairs of file names        *)
(*   PlaybackSpec the player left to play, the timer weakly fair           *)
(*   RunsSpec    the concatenator with worker, encoder and main loop fair   *)
(***************************************************************************)
EXTENDS Integers, Sequences, FiniteSets, TLC

VARIABLES
    app,               \* which of the two programs (or pure functions) runs
    \* ---- FolderVideoPlayer fields (dashcam_clips_viewer.py:31-40) ----
    files,             \* self.files: the clip descriptors
    total_frames,      \* self.total_frames
    total_seconds,     \* self.total_seconds (a rational, in seconds)
    cap,               \* self.cap: None, or the open capture (path, position)
    cur_file_idx,      \* self.cur_file_idx (0-based, -1 before any open)
    cur_global_frame,  \* self.cur_global_frame
    playing,           \* self.playing
    seeking,           \* self.seeking
    loop_var,          \* self.loop_var
    folder_var,        \* self.folder_var: the folder shown in the folder field
    slider,            \* the slider's value
    slider_to,         \* the slider's upper end (from_ is always 0)
    shown,             \* the frame on the video label: None or (path, local)
    dialog,            \* the message box the last handler showed ("" if none)
    exc,               \* the last handler ended by raising (cap was None)
    timer_alive,       \* _timer_tick is still scheduled
    \* ---- _build_atempo_chain (concat_video_clips.py:55-64) ----
    a_fps,             \* user_fps, the float the FPS field parsed to
    a_speed,           \* the argument: float(base_output_fps)/float(user_fps)
    a_factor,          \* the local factor
    a_steps,           \* the local steps
    a_pc,              \* where the call stands
    \* ---- the progress loop of run_ffmpeg_concat (lines 104-131) ----
    p_alive,           \* the loop is running (Popen done, no return yet)
    p_raw,             \* the line of proc.stdout read last
    p_calls,           \* the callbacks invoked for it
    p_bad_seen,        \* an earlier line of the run had a malformed time
    \* ---- the concatenator's form (concat_video_clips.py:141-145) ----
    c_folder_var,      \* self.folder_var: what the folder field names
    c_outfile_var,     \* self.outfile_var
    c_fps_var,         \* self.fps_var
    c_speed_mode_var,  \* self.speed_mode_var
    c_keep_audio_var,  \* self.keep_audio_var
    \* ---- the concatenator's widgets and fields ----
    c_total_duration,  \* self.total_duration
    c_prog,            \* self.prog["value"], a percentage
    c_log,             \* the last line of self.log
    c_dialog,          \* the message box the last handler showed
    c_start_btn,       \* state of self.start_btn
    c_quit_btn,        \* state of self.quit_btn
    c_queue,           \* Tk's queue of after(0, ...) callbacks
    c_listfile,        \* the temporary concat list file exists
    \* ---- the worker thread of the current run (lines 307-328) ----
    w_pc,              \* idle, launch, stream or hung
    w_chain,           \* the speed _build_atempo_chain is called with, if any
    w_exit,            \* the exit code proc.wait() returned, if it did
    w_exc,             \* run_ffmpeg_concat raised
    w_last,            \* the last sample handed to progress_callback
    \* ---- the environment ----
    e_ffmpeg,          \* ffmpeg and ffprobe are on the PATH
    e_clock,           \* the encoder's place in EncoderTimes
    \* ---- natural_keys under sorted() ----
    n_names,           \* the two file names being compared
    n_out              \* the outcome of the comparison ("" before it)

pvars == <<files, total_frames, total_seconds, cap, cur_file_idx,
           cur_global_frame, playing, seeking, loop_var, folder_var, slider,
           slider_to, shown, dialog, exc, timer_alive>>
avars == <<a_fps, a_speed, a_factor, a_steps, a_pc>>
xvars == <<p_alive, p_raw, p_calls, p_bad_seen>>
cvars == <<c_folder_var, c_outfile_var, c_fps_var, c_speed_mode_var,
           c_keep_audio_var, c_total_duration, c_prog, c_log, c_dialog,
           c_start_btn, c_quit_btn, c_queue, c_listfile, w_pc, w_chain,
           w_exit, w_exc, w_last, e_ffmpeg, e_clock>>
nvars == <<n_names, n_out>>
vars == <<app, pvars, avars, xvars, cvars, nvars>>

-----------------------------------------------------------------------------
(* Bounds of the model *)

MaxClips == 2
MaxFrames == 2
MaxSlack == 2
MaxNum == 9
MaxDen == 9
MaxChain == 6
MaxValLen == 3
MaxMicros == 3
MaxField == 1
MaxCClips == 1
MaxQueue == 1
MaxNameLen == 3
MaxNumber == 11

-----------------------------------------------------------------------------
(* Small helpers *)

None == <<>>
Some(x) == <<x>>

Max(a, b) == IF a >= b THEN a ELSE b
Min(a, b) == IF a <= b THEN a ELSE b
Abs(a) == IF a < 0 THEN -a ELSE a

RECURSIVE GCD(_, _)
GCD(a, b) == IF b = 0 THEN a ELSE GCD(b, a % b)

\* Rationals <<n, d>>, d > 0, in lowest terms: the exact value of a float
\* computation that stays within the exactly representable range.
Rat(n, d) ==
    LET g == GCD(Abs(n), Abs(d))
        s == IF d < 0 THEN -1 ELSE 1
    IN  <<(s * n) \div g, (s * d) \div g>>
\* (sums are taken over the least common denominator)
RatAdd(x, y) ==
    LET g == GCD(x[2], y[2])
    IN  Rat(x[1] * (y[2] \div g) + y[1] * (x[2] \div g), (x[2] \div g) * y[2])
RatSub(x, y) == RatAdd(x, <<-y[1], y[2]>>)
\* (products cancel across the two fractions first)
RatMul(x, y) ==
    LET g1 == GCD(Abs(x[1]), y[2])
        g2 == GCD(Abs(y[1]), x[2])
        h1 == IF g1 = 0 THEN 1 ELSE g1
        h2 == IF g2 = 0 THEN 1 ELSE g2
    IN  Rat((x[1] \div h1) * (y[1] \div h2), (x[2] \div h2) * (y[2] \div h1))
RatAbs(x) == <<Abs(x[1]), x[2]>>
RatLeq(x, y) == x[1] * y[2] <= y[1] * x[2]
RatLess(x, y) == x[1] * y[2] < y[1] * x[2]
Zero == Rat(0, 1)
One == Rat(1, 1)
Half == Rat(1, 2)
Two == Rat(2, 1)
\* float("inf"): <<1, 0>> compares above every rational and halves to itself.
PosInf == <<1, 0>>

clamp(val, lo, hi) == Max(lo, Min(hi, val))

-----------------------------------------------------------------------------
(* The file system the player reads: a folder is the list of its MP4 files *)
(* in natural-sort order; a file opens or not, and reports fps and frames. *)

\* A file that does not open, and for each frame count one that does; the
\* files of odd length report no fps (CAP_PROP_FPS = 0), the others 60.
ClipKinds ==
    {[openable |-> FALSE, fps |-> 0, frames |-> 0]} \cup
    {[openable |-> TRUE, fps |-> IF n % 2 = 1 THEN 0 ELSE 60, frames |-> n] :
        n \in 0 .. MaxFrames}

SeqsUpTo(S, n) == UNION {[1 .. k -> S] : k \in 0 .. n}

Folders == SeqsUpTo(ClipKinds, MaxClips)

Path(F, k) == [folder |-> F, k |-> k]
FileOf(path) == path.folder[path.k]
\* Frames a capture opened on path can deliver.
Readable(path) == IF FileOf(path).openable THEN FileOf(path).frames ELSE 0

-----------------------------------------------------------------------------
(* FolderVideoPlayer: the object as a record, so that a handler is the      *)
(* composition of the methods it calls.                                     *)

Self ==
    [files |-> files, total_frames |-> total_frames,
     total_seconds |-> total_seconds, cap |-> cap,
     cur_file_idx |-> cur_file_idx, cur_global_frame |-> cur_global_frame,
     playing |-> playing, seeking |-> seeking, loop_var |-> loop_var,
     folder_var |-> folder_var, slider |-> slider, slider_to |-> slider_to,
     shown |-> shown, dialog |-> "",
     exc |-> FALSE, timer_alive |-> timer_alive]

\* The handler's result becomes the next state.
Commit(s) ==
    /\ app = "player"
    /\ UNCHANGED <<app, avars, xvars, cvars, nvars>>
    /\ files' = s.files
    /\ total_frames' = s.total_frames
    /\ total_seconds' = s.total_seconds
    /\ cap' = s.cap
    /\ cur_file_idx' = s.cur_file_idx
    /\ cur_global_frame' = s.cur_global_frame
    /\ playing' = s.playing
    /\ seeking' = s.seeking
    /\ loop_var' = s.loop_var
    /\ folder_var' = s.folder_var
    /\ slider' = s.slider
    /\ slider_to' = s.slider_to
    /\ shown' = s.shown
    /\ dialog' = s.dialog
    /\ exc' = s.exc
    /\ timer_alive' = s.timer_alive

\* The fields as __init__ leaves them.
PlayerInit ==
    /\ files = <<>>
    /\ total_frames = 0
    /\ total_seconds = Zero
    /\ cap = None
    /\ cur_file_idx = -1
    /\ cur_global_frame = 0
    /\ playing = FALSE
    /\ seeking = FALSE
    /\ loop_var = TRUE
    /\ folder_var = None
    /\ slider = 0
    /\ slider_to = 0
    /\ shown = None
    /\ dialog = ""
    /\ exc = FALSE
    /\ timer_alive = TRUE

\* An AttributeError on self.cap (None): the handler stops where it is.
Raise(s) == [s EXCEPT !.exc = TRUE]

FallbackFps == 30

\* BuildIndex without "start_frame += nframes".
RECURSIVE BuildIndexNoAdvance(_, _, _)
BuildIndexNoAdvance(F, k, acc) ==
    IF k > Len(F) THEN acc
    ELSE IF ~F[k].openable THEN BuildIndexNoAdvance(F, k + 1, acc)
    ELSE LET fps == IF F[k].fps = 0 THEN 30 ELSE F[k].fps
             nframes == F[k].frames
             dur == IF nframes > 0 THEN Rat(nframes, fps) ELSE Zero
             f == [path |-> Path(F, k), fps |-> fps, frames |-> nframes,
                   start_frame |-> acc.start_frame,
                   start_time |-> acc.start_time]
         IN  BuildIndexNoAdvance(F, k + 1,
                 [files |-> Append(acc.files, f),
                  total_frames |-> acc.total_frames + nframes,
                  total_secs |-> RatAdd(acc.total_secs, dur),
                  start_frame |-> acc.start_frame,
                  start_time |-> RatAdd(acc.start_time, dur)])

\* The metadata loop of _load_folder over paths[k..], acc holding the loop's
\* variables: unopenable files are skipped, the others appended.
RECURSIVE BuildIndex(_, _, _)
BuildIndex(F, k, acc) ==
    IF k > Len(F) THEN acc
    ELSE IF ~F[k].openable THEN BuildIndex(F, k + 1, acc)
    ELSE LET fps == IF F[k].fps = 0 THEN FallbackFps ELSE F[k].fps
             nframes == F[k].frames
             dur == IF nframes > 0 THEN Rat(nframes, fps) ELSE Zero
             f == [path |-> Path(F, k), fps |-> fps, frames |-> nframes,
                   start_frame |-> acc.start_frame,
                   start_time |-> acc.start_time]
         IN  BuildIndex(F, k + 1,
                 [files |-> Append(acc.files, f),
                  total_frames |-> acc.total_frames + nframes,
                  total_secs |-> RatAdd(acc.total_secs, dur),
                  start_frame |-> acc.start_frame + nframes,
                  start_time |-> RatAdd(acc.start_time, dur)])

\* ScanFiles with "gframe <= end" for "gframe < end".
RECURSIVE ScanFilesInclusive(_, _, _)
ScanFilesInclusive(fs, i, gframe) ==
    IF i >= Len(fs)
    THEN <<Len(fs) - 1, Max(0, fs[Len(fs)].frames - 1)>>
    ELSE IF gframe <= fs[i + 1].start_frame + fs[i + 1].frames
         THEN <<i, gframe - fs[i + 1].start_frame>>
         ELSE ScanFilesInclusive(fs, i + 1, gframe)

\* The for loop of _global_to_file_local from (0-based) clip i on.
RECURSIVE ScanFiles(_, _, _)
ScanFiles(fs, i, gframe) ==
    IF i >= Len(fs)
    THEN <<Len(fs) - 1, Max(0, fs[Len(fs)].frames - 1)>>
    ELSE IF gframe < fs[i + 1].start_frame + fs[i + 1].frames
         THEN <<i, gframe - fs[i + 1].start_frame>>
         ELSE ScanFiles(fs, i + 1, gframe)

\* _global_to_file_local: (file_idx, local_frame), file_idx 0-based.
\* Called only with a non-empty clip table.
GlobalToFileLocal(fs, total, gframe) ==
    ScanFiles(fs, 0, clamp(gframe, 0, Max(0, total - 1)))

OpenCaptureForFile(s, idx) ==
    IF idx = s.cur_file_idx THEN s
    ELSE [s EXCEPT !.cap = Some([path |-> s.files[idx + 1].path, pos |-> 0]),
                   !.cur_file_idx = idx]

\* self.cap.set(cv2.CAP_PROP_POS_FRAMES, local)
CapSet(s, local) ==
    IF s.cap = None THEN Raise(s)
    ELSE [s EXCEPT !.cap = Some([s.cap[1] EXCEPT !.pos = local])]

\* self.cap.read(): whether a frame came.
CapReadOk(s) == s.cap[1].pos < Readable(s.cap[1].path)
\* The frame it returns, when one came.
CapFrame(s) == [path |-> s.cap[1].path, local |-> s.cap[1].pos]
\* The capture after the call.
CapRead(s) ==
    IF CapReadOk(s)
    THEN [s EXCEPT !.cap = Some([s.cap[1] EXCEPT !.pos = s.cap[1].pos + 1])]
    ELSE s

OpenCaptureForGlobalFrame(s, gframe) ==
    LET m == GlobalToFileLocal(s.files, s.total_frames, gframe)
    IN  CapSet(OpenCaptureForFile(s, m[1]), m[2])

ShowFrame(s, frame) == [s EXCEPT !.shown = Some(frame)]

DisplayCurrentFrame(s) ==
    LET m == GlobalToFileLocal(s.files, s.total_frames, s.cur_global_frame)
        s1 == CapSet(OpenCaptureForFile(s, m[1]), m[2])
    IN  IF s1.exc THEN s1
        ELSE IF CapReadOk(s1) THEN ShowFrame(CapRead(s1), CapFrame(s1))
        \* the second try: a failed read left the position where it was
        ELSE IF CapReadOk(CapRead(s1))
             THEN ShowFrame(CapRead(CapRead(s1)), CapFrame(CapRead(s1)))
             ELSE CapRead(CapRead(s1))

SeekTo(s, gframe) ==
    IF s.files = <<>> THEN s
    ELSE LET s1 == [s EXCEPT !.cur_global_frame =
                                 clamp(gframe, 0, s.total_frames - 1)]
             s2 == OpenCaptureForGlobalFrame(s1, s1.cur_global_frame)
             s3 == IF s2.exc THEN s2 ELSE DisplayCurrentFrame(s2)
         IN  IF s3.exc THEN s3
             ELSE IF s3.seeking THEN s3
                  ELSE [s3 EXCEPT !.slider = s3.cur_global_frame]

StepHandler(s, delta) ==
    IF s.files = <<>> THEN s
    ELSE LET s1 == [s EXCEPT !.playing = FALSE]
         IN  SeekTo(s1, clamp(s1.cur_global_frame + delta, 0,
                              s1.total_frames - 1))

LoadFolder(s, F) ==
    LET s1 == [s EXCEPT !.cap = None]
        ix == BuildIndex(F, 1, [files |-> <<>>, total_frames |-> 0,
                                total_secs |-> Zero, start_frame |-> 0,
                                start_time |-> Zero])
    IN  IF F = <<>> THEN [s1 EXCEPT !.dialog = "No videos"]
        ELSE IF ix.total_frames = 0 THEN [s1 EXCEPT !.dialog = "No frames"]
        ELSE LET s2 == [s1 EXCEPT !.files = ix.files,
                                  !.total_frames = ix.total_frames,
                                  !.total_seconds = ix.total_secs,
                                  !.cur_file_idx = -1,
                                  !.cur_global_frame = 0]
                 s3 == OpenCaptureForGlobalFrame(s2, 0)
                 s4 == DisplayCurrentFrame(s3)
             IN  [s4 EXCEPT !.slider_to = Max(0, s4.total_frames - 1),
                            !.slider = 0]

\* The body of _timer_tick once a read has succeeded (lines 302-307).
TickShow(s, frame) ==
    LET s1 == [ShowFrame(s, frame) EXCEPT !.cur_global_frame =
                   clamp(s.cur_global_frame + 1, 0, s.total_frames - 1)]
    IN  IF s1.seeking THEN s1
        ELSE [s1 EXCEPT !.slider = s1.cur_global_frame]

\* _timer_tick; a raise loses the self.after that would have rescheduled it.
TimerTick(s) ==
    IF ~(s.files # <<>> /\ s.playing) THEN s
    ELSE
    LET m == GlobalToFileLocal(s.files, s.total_frames, s.cur_global_frame)
        file_idx == m[1]
        local_frame == m[2]
        s1 == OpenCaptureForFile(s, file_idx)
    IN  IF s1.cap = None THEN [Raise(s1) EXCEPT !.timer_alive = FALSE]
        ELSE
        LET s2 == IF Abs(s1.cap[1].pos - local_frame) > 1
                  THEN CapSet(s1, local_frame) ELSE s1
        IN  IF CapReadOk(s2) THEN TickShow(CapRead(s2), CapFrame(s2))
            ELSE IF file_idx + 1 < Len(s2.files)
            THEN LET s3 == [OpenCaptureForFile(s2, file_idx + 1) EXCEPT
                               !.cur_global_frame =
                                   s2.files[file_idx + 2].start_frame]
                 IN  IF CapReadOk(s3) THEN TickShow(CapRead(s3), CapFrame(s3))
                     ELSE s3
            ELSE IF s2.loop_var
            THEN LET s3 == SeekTo(s2, 0)
                 IN  IF s3.exc THEN [s3 EXCEPT !.timer_alive = FALSE]
                     ELSE IF CapReadOk(s3)
                          THEN TickShow(CapRead(s3), CapFrame(s3))
                          ELSE s3
            ELSE [s2 EXCEPT !.playing = FALSE]

-----------------------------------------------------------------------------
(* Python's string operations on a line of the encoder's output. Strings    *)
(* are read a character at a time: SubSeq(s, i, i) is s[i].                 *)

Char(s, i) == SubSeq(s, i, i)
Drop(s, n) == SubSeq(s, n + 1, Len(s))
Digits == {"0", "1", "2", "3", "4", "5", "6", "7", "8", "9"}
Spaces == {" ", "\t", "\n", "\r"}
DigitVal(c) ==
    CASE c = "0" -> 0 [] c = "1" -> 1 [] c = "2" -> 2 [] c = "3" -> 3
      [] c = "4" -> 4 [] c = "5" -> 5 [] c = "6" -> 6 [] c = "7" -> 7
      [] c = "8" -> 8 [] c = "9" -> 9

RECURSIVE LStrip(_)
LStrip(s) ==
    IF s # "" /\ Char(s, 1) \in Spaces THEN LStrip(Drop(s, 1)) ELSE s
RECURSIVE RStrip(_)
RStrip(s) ==
    IF s # "" /\ Char(s, Len(s)) \in Spaces
    THEN RStrip(SubSeq(s, 1, Len(s) - 1)) ELSE s
\* str.strip()
Strip(s) == RStrip(LStrip(s))

\* str.startswith(prefix)
StartsWith(s, prefix) ==
    Len(s) >= Len(prefix) /\ SubSeq(s, 1, Len(prefix)) = prefix

\* The position of the first c in s at or after i, 0 if there is none.
RECURSIVE Find(_, _, _)
Find(s, c, i) ==
    IF i > Len(s) THEN 0
    ELSE IF Char(s, i) = c THEN i ELSE Find(s, c, i + 1)

\* s.split(c): the list of the pieces between the occurrences of c.
RECURSIVE Split(_, _)
Split(s, c) ==
    LET i == Find(s, c, 1)
    IN  IF i = 0 THEN <<s>>
        ELSE <<SubSeq(s, 1, i - 1)>> \o Split(Drop(s, i), c)

\* line.split("=", 1)[1]; the caller has checked that the line holds an "=".
AfterEq(line) == Drop(line, Find(line, "=", 1))

AllDigits(s) == s # "" /\ \A i \in 1 .. Len(s) : Char(s, i) \in Digits

\* The number a string of digits writes.
RECURSIVE Numeral(_)
Numeral(s) ==
    IF s = "" THEN 0
    ELSE 10 * Numeral(SubSeq(s, 1, Len(s) - 1)) + DigitVal(Char(s, Len(s)))

RECURSIVE Pow10(_)
Pow10(n) == IF n = 0 THEN 1 ELSE 10 * Pow10(n - 1)

\* A leading sign and the rest.
SignOf(s) == IF s # "" /\ Char(s, 1) = "-" THEN -1 ELSE 1
Unsigned(s) == IF s # "" /\ Char(s, 1) \in {"-", "+"} THEN Drop(s, 1) ELSE s

\* int(s) for the strings over digits, signs, blanks and other characters
\* that are no part of a number: surrounding blanks and one sign are
\* accepted; anything else raises ValueError (ok = FALSE).
PyInt(s) ==
    LET t == Unsigned(Strip(s))
    IN  IF AllDigits(t)
        THEN [ok |-> TRUE, val |-> SignOf(Strip(s)) * Numeral(t)]
        ELSE [ok |-> FALSE, val |-> 0]

\* float(s) for the same strings and ".": digits with at most one point and
\* at least one digit.
PyFloat(s) ==
    LET t == Unsigned(Strip(s))
        dot == Find(t, ".", 1)
        ip == IF dot = 0 THEN t ELSE SubSeq(t, 1, dot - 1)
        fp == IF dot = 0 THEN "" ELSE Drop(t, dot)
    IN  IF /\ ip \o fp # ""
           /\ \A i \in 1 .. Len(ip) : Char(ip, i) \in Digits
           /\ \A i \in 1 .. Len(fp) : Char(fp, i) \in Digits
        THEN [ok |-> TRUE,
              val |-> Rat(SignOf(Strip(s))
                            * (Numeral(ip) * Pow10(Len(fp)) + Numeral(fp)),
                          Pow10(Len(fp)))]
        ELSE [ok |-> FALSE, val |-> Zero]

MicrosPerSecond == 1000000

\* Lines 113-117: the value of an "out_time_ms=" line, in seconds.
ParseOutTimeMs(line) ==
    LET us == PyInt(Strip(AfterEq(line)))
    IN  IF us.ok THEN [ok |-> TRUE, secs |-> Rat(us.val, MicrosPerSecond)]
        ELSE [ok |-> FALSE, secs |-> Zero]

\* Lines 120-125: the value of an "out_time=" line, in seconds.
ParseOutTime(line) ==
    LET parts == Split(Strip(AfterEq(line)), ":")
    IN  IF Len(parts) # 3 THEN [ok |-> FALSE, secs |-> Zero]
        ELSE LET hh == PyInt(parts[1])
                 mm == PyInt(parts[2])
                 ss == PyFloat(parts[3])
             IN  IF hh.ok /\ mm.ok /\ ss.ok
                 THEN [ok |-> TRUE,
                       secs |-> RatAdd(Rat(hh.val * 3600 + mm.val * 60, 1),
                                       ss.val)]
                 ELSE [ok |-> FALSE, secs |-> Zero]

Progress(secs) == [cb |-> "progress", arg |-> secs]
Log(line) == [cb |-> "log", arg |-> line]
Raised == [cb |-> "raise", arg |-> ""]

\* The loop without its try blocks: the ValueError leaves the loop.
OnParseErrorUncaught == <<Raised>>

\* What "except Exception: pass" makes of a value that did not parse.
OnParseError == <<>>

\* One pass of the for loop (lines 110-129) on the line raw: the callbacks
\* it invokes, in order. A "raise" entry is an exception leaving the loop.
HandleLine(raw) ==
    LET line == Strip(raw)
    IN  IF line = "" THEN <<>>
        ELSE IF StartsWith(line, "out_time_ms=")
        THEN LET r == ParseOutTimeMs(line)
             IN  IF r.ok THEN <<Progress(r.secs)>> ELSE OnParseError
        ELSE IF StartsWith(line, "out_time=")
        THEN LET r == ParseOutTime(line)
             IN  IF r.ok THEN <<Progress(r.secs)>> ELSE OnParseError
        ELSE IF StartsWith(line, "progress=") THEN <<>>
        ELSE <<Log(line)>>

\* No encoder is running.
ParserOff ==
    /\ p_alive = FALSE
    /\ p_raw = ""
    /\ p_calls = <<>>
    /\ p_bad_seen = FALSE

\* No comparison is under way.
NaturalOff ==
    /\ n_names = <<>>
    /\ n_out = ""

\* The concatenator is not running.
ConcatOff ==
    /\ e_ffmpeg = TRUE
    /\ c_folder_var = [kind |-> "blank", clips |-> <<>>]
    /\ c_outfile_var = ""
    /\ c_fps_var = "60"
    /\ c_speed_mode_var = TRUE
    /\ c_keep_audio_var = TRUE
    /\ c_total_duration = Zero
    /\ c_prog = Zero
    /\ c_log = ""
    /\ c_dialog = ""
    /\ c_start_btn = "normal"
    /\ c_quit_btn = "normal"
    /\ c_queue = <<>>
    /\ c_listfile = FALSE
    /\ w_pc = "idle"
    /\ w_chain = None
    /\ w_exit = None
    /\ w_exc = FALSE
    /\ w_last = None
    /\ e_clock = 1

-----------------------------------------------------------------------------
(* The concatenator's speed ratio and _build_atempo_chain.                  *)

BaseOutFps == 60
\* 1e-6 as 1 / TolDen
TolDen == 1000000

\* The floats start() accepts as user_fps (float(fps_str) > 0): finite ones,
\* float("inf"), and the positive floats so small that 60 / user_fps
\* overflows (any below 60 / DBL_MAX, such as 1e-320).
FiniteFps ==
    {Rat(BaseOutFps * q, p) : p \in 1 .. MaxNum, q \in 1 .. MaxDen} \cup
    {Rat(BaseOutFps * TolDen * k, k * TolDen + e) :
        k \in 1 .. 2, e \in {-2, -1, 1, 2}}
UserFps ==
    {[kind |-> "finite", v |-> r] : r \in FiniteFps} \cup
    {[kind |-> "inf", v |-> PosInf], [kind |-> "denormal", v |-> Zero]}

\* float(base_output_fps) / float(user_fps)
SpeedOf(u) ==
    CASE u.kind = "finite" -> Rat(BaseOutFps * u.v[2], u.v[1])
      [] u.kind = "inf" -> Zero
      [] u.kind = "denormal" -> PosInf

\* factor /= 2.0, exact in binary floating point; inf / 2 = inf
HalveF(x) == IF x = PosInf THEN PosInf ELSE Rat(x[1], 2 * x[2])
\* factor /= 0.5
DoubleF(x) == Rat(2 * x[1], x[2])
\* factor - 1.0 > 1e-6: the test without the abs()
FarFromOneNoAbs(x) == x = PosInf \/ (x[1] - x[2]) * TolDen > x[2]
\* abs(factor - 1.0) > 1e-6
FarFromOne(x) == x = PosInf \/ Abs(x[1] - x[2]) * TolDen > x[2]

\* steps.append(x): the model keeps the first MaxChain steps of the list.
AppendStep(steps, x) ==
    IF Len(steps) < MaxChain THEN Append(steps, x) ELSE steps

AtempoOff ==
    /\ a_fps = [kind |-> "finite", v |-> Rat(BaseOutFps, 1)]
    /\ a_speed = One
    /\ a_factor = One
    /\ a_steps = <<>>
    /\ a_pc = "idle"

\* run_ffmpeg_concat line 84 and the call of line 88.
AtempoCall ==
    /\ a_pc \in {"idle", "done"}
    /\ \E u \in UserFps :
          /\ a_fps' = u
          /\ a_speed' = SpeedOf(u)
          /\ a_factor' = SpeedOf(u)
    /\ a_steps' = <<>>
    /\ a_pc' = "entry"
    /\ UNCHANGED <<app, nvars, pvars, cvars, xvars>>

\* line 57: if factor <= 0: return steps
AtempoEntry ==
    /\ a_pc = "entry"
    /\ a_pc' = IF RatLeq(a_factor, Zero) THEN "done" ELSE "low"
    /\ UNCHANGED <<app, nvars, pvars, cvars, xvars, a_fps, a_speed, a_factor, a_steps>>

\* lines 58-59: while factor < 0.5: one test, and one iteration if it holds
AtempoLow ==
    /\ a_pc = "low"
    /\ IF RatLess(a_factor, Half)
       THEN /\ a_steps' = AppendStep(a_steps, Half)
            /\ a_factor' = DoubleF(a_factor)
            /\ a_pc' = "low"
       ELSE /\ a_pc' = "high"
            /\ UNCHANGED <<a_steps, a_factor>>
    /\ UNCHANGED <<app, nvars, pvars, cvars, xvars, a_fps, a_speed>>

\* lines 60-61: while factor > 2.0
AtempoHigh ==
    /\ a_pc = "high"
    /\ IF RatLess(Two, a_factor)
       THEN /\ a_steps' = AppendStep(a_steps, Two)
            /\ a_factor' = HalveF(a_factor)
            /\ a_pc' = "high"
       ELSE /\ a_pc' = "tail"
            /\ UNCHANGED <<a_steps, a_factor>>
    /\ UNCHANGED <<app, nvars, pvars, cvars, xvars, a_fps, a_speed>>

\* lines 62-64
AtempoTail ==
    /\ a_pc = "tail"
    /\ a_steps' = IF FarFromOne(a_factor) THEN AppendStep(a_steps, a_factor)
                  ELSE a_steps
    /\ a_pc' = "done"
    /\ UNCHANGED <<app, nvars, pvars, cvars, xvars, a_fps, a_speed, a_factor>>

AtempoNext ==
    \/ AtempoCall
    \/ AtempoEntry
    \/ AtempoLow
    \/ AtempoHigh
    \/ AtempoTail

AtempoInit == app = "atempo" /\ PlayerInit /\ AtempoOff /\ ParserOff /\ ConcatOff
    /\ NaturalOff
\* The function runs on the worker thread, which keeps executing it.
AtempoSpec == AtempoInit /\ [][AtempoNext]_vars /\ WF_vars(AtempoNext)

RECURSIVE Product(_)
Product(steps) ==
    IF steps = <<>> THEN One ELSE RatMul(steps[1], Product(Tail(steps)))

InRangeSteps ==
    \A i \in 1 .. Len(a_steps) :
        RatLeq(Half, a_steps[i]) /\ RatLeq(a_steps[i], Two)

\* |speed - product| <= 1e-6 * product
ProductMatches ==
    RatLeq(RatMul(<<TolDen, 1>>, RatAbs(RatSub(a_speed, Product(a_steps)))),
           Product(a_steps))

Returned == a_pc = "done"
Entered == a_pc = "entry"
\* (a rational <<n, d>> has d >= 0, so it is positive exactly when n is)
PositiveSpeed == a_speed[1] > 0
FiniteSpeed == a_speed[2] # 0
ReturnedGood == Returned => (InRangeSteps /\ ProductMatches)
ReturnedGoodIfPositive ==
    (Returned /\ PositiveSpeed) => (InRangeSteps /\ ProductMatches)
ReturnedEmptyIfNotPositive ==
    (Returned /\ ~PositiveSpeed) => a_steps = <<>>
NeverReturnsOnInf == ~FiniteSpeed => ~Returned

-----------------------------------------------------------------------------
(* The progress loop on its own: the encoder writes any line at all.        *)

\* Decimal notation of n >= 0, as the encoder prints it.
RECURSIVE Dec(_)
Dec(n) ==
    LET d == CHOOSE c \in Digits : DigitVal(c) = n % 10
    IN  IF n < 10 THEN d ELSE Dec(n \div 10) \o d
\* Two digits at least
Dec2(n) == IF n < 10 THEN "0" \o Dec(n) ELSE Dec(n)

ValueChars == {"1", ":", "-", "x"}
RECURSIVE Strings(_)
Strings(n) ==
    IF n = 0 THEN {""}
    ELSE Strings(n - 1) \cup {s \o c : s \in Strings(n - 1), c \in ValueChars}

Keys == {"out_time_ms=", "out_time=", "progress=", "frame="}
ElapsedKeys == {"out_time_ms=", "out_time="}

\* Well-formed elapsed-time lines
MsLine(n) == "out_time_ms=" \o (IF n < 0 THEN "-" \o Dec(-n) ELSE Dec(n))
TimeLine(h, m, sec) == "out_time=" \o Dec2(h) \o ":" \o Dec2(m) \o ":" \o sec
SecondsText == {[text |-> Dec2(n), val |-> Rat(n, 1)] : n \in 0 .. MaxField}
    \cup {[text |-> "01.500000", val |-> Rat(3, 2)],
          [text |-> "00.040000", val |-> Rat(1, 25)]}

EncoderLines ==
    {k \o v : k \in Keys, v \in Strings(MaxValLen)}
    \cup {MsLine(n) : n \in -MaxMicros .. MaxMicros}
    \cup {MsLine(1500000), MsLine(1500000) \o "\n", " out_time_ms= 15 \n",
          "out_time_ms=N/A", "out_time=N/A", "", "\n", "out_time_us=15",
          "out_time=00:00", "out_time=00:00:00:00", "out_time=00:xx:00",
          "speed=1.5x", "out_time_ms", "out_time=-00:00:00.040000"}
    \cup {TimeLine(h, m, sec.text) :
             h \in 0 .. MaxField, m \in 0 .. MaxField, sec \in SecondsText}

\* subprocess.Popen(...) returns (lines 104-107).
ParserStart ==
    /\ ~p_alive
    /\ p_alive' = TRUE
    /\ p_raw' = ""
    /\ p_calls' = <<>>
    /\ p_bad_seen' = FALSE
    /\ UNCHANGED <<app, nvars, pvars, cvars, avars>>

\* The line has an elapsed-time key and no callback came of it.
Malformed(raw, calls) ==
    /\ \E k \in ElapsedKeys : StartsWith(Strip(raw), k)
    /\ calls = <<>>

\* One pass of the for loop.
ParserReadLine ==
    /\ p_alive
    /\ \E raw \in EncoderLines :
          LET calls == HandleLine(raw)
          IN  /\ p_raw' = raw
              /\ p_calls' = calls
              /\ p_alive' = (\A i \in 1 .. Len(calls) : calls[i].cb # "raise")
              /\ p_bad_seen' = (p_bad_seen \/ Malformed(p_raw, p_calls))
    /\ UNCHANGED <<app, nvars, pvars, cvars, avars>>

\* proc.stdout is exhausted: return proc.wait() (line 131).
ParserEof ==
    /\ p_alive
    /\ p_alive' = FALSE
    /\ UNCHANGED <<app, nvars, pvars, cvars, avars, p_raw, p_calls, p_bad_seen>>

ParserNext ==
    \/ ParserStart
    \/ ParserReadLine
    \/ ParserEof

ParserInit == app = "parser" /\ PlayerInit /\ AtempoOff /\ ParserOff /\ ConcatOff
    /\ NaturalOff
ParserSpec == ParserInit /\ [][ParserNext]_vars

\* The text of an integer: one optional sign, then digits.
IsIntText(v) ==
    LET u == IF v # "" /\ Char(v, 1) \in {"-", "+"} THEN Drop(v, 1) ELSE v
    IN  u # "" /\ \A i \in 1 .. Len(u) : Char(u, i) \in Digits
\* The text of a number of seconds: digits with at most one point in them.
IsSecondsText(v) ==
    LET u == IF v # "" /\ Char(v, 1) \in {"-", "+"} THEN Drop(v, 1) ELSE v
    IN  /\ \E i \in 1 .. Len(u) : Char(u, i) \in Digits
        /\ \A i \in 1 .. Len(u) : Char(u, i) \in Digits \cup {"."}
        /\ Cardinality({i \in 1 .. Len(u) : Char(u, i) = "."}) <= 1
\* The line is "out_time_ms=N" or "out_time=HH:MM:SS", blanks aside.
IsElapsedLine(raw) ==
    LET line == Strip(raw)
    IN  \/ /\ StartsWith(line, "out_time_ms=")
           /\ IsIntText(Strip(Drop(line, Len("out_time_ms="))))
        \/ /\ StartsWith(line, "out_time=")
           /\ LET parts == Split(Strip(Drop(line, Len("out_time="))), ":")
              IN  /\ Len(parts) = 3
                  /\ IsIntText(Strip(parts[1]))
                  /\ IsIntText(Strip(parts[2]))
                  /\ IsSecondsText(Strip(parts[3]))
HasProgress(calls) == \E i \in 1 .. Len(calls) : calls[i].cb = "progress"
HasRaise(calls) == \E i \in 1 .. Len(calls) : calls[i].cb = "raise"

\* C5: "out_time_ms=N" delivers N / 1,000,000 seconds to the progress
\* callback ("out_time_ms=1500000" gives 1.5), "out_time=HH:MM:SS" delivers
\* 3600*HH + 60*MM + SS, no other line reaches the progress callback, and a
\* malformed elapsed-time value triggers no callback and leaves the loop
\* running for the lines after it.
C5_ParserCorrect ==
    /\ \A n \in -MaxMicros .. MaxMicros :
          p_raw = MsLine(n) => p_calls = <<Progress(Rat(n, MicrosPerSecond))>>
    /\ p_raw \in {MsLine(1500000), MsLine(1500000) \o "\n"}
          => p_calls = <<Progress(Rat(3, 2))>>
    /\ \A h \in 0 .. MaxField, m \in 0 .. MaxField, sec \in SecondsText :
          p_raw = TimeLine(h, m, sec.text)
             => p_calls = <<Progress(RatAdd(Rat(3600 * h + 60 * m, 1), sec.val))>>
    /\ HasProgress(p_calls) <=> IsElapsedLine(p_raw)
    /\ Malformed(p_raw, p_calls) <=>
          /\ \E k \in ElapsedKeys : StartsWith(Strip(p_raw), k)
          /\ ~IsElapsedLine(p_raw)
    /\ ~HasRaise(p_calls)
    /\ p_bad_seen /\ IsElapsedLine(p_raw) => HasProgress(p_calls)

\* After a malformed line of the same run, "out_time_ms=1500000" is read
\* and reported as 1.5 seconds.
C5_Witness ==
    /\ p_bad_seen
    /\ p_alive
    /\ p_raw = "out_time_ms=1500000"
    /\ p_calls = <<Progress(Rat(3, 2))>>

-----------------------------------------------------------------------------
(* The concatenator (concat_video_clips.py): the form, the Start handler,   *)
(* the worker thread and Tk's queue of after(0, ...) callbacks.             *)

\* decimal notation of n >= 0 on at least w digits ("%0wd")
RECURSIVE Zeros(_)
Zeros(k) == IF k <= 0 THEN "" ELSE "0" \o Zeros(k - 1)
PadTo(n, w) == Zeros(w - Len(Dec(n))) \o Dec(n)

\* The encoder's "out_time=" value for a timestamp in microseconds: a sign,
\* then hours, minutes, seconds and microseconds of the absolute value.
FmtOutTime(us) ==
    LET a == Abs(us)
        total == a \div MicrosPerSecond
    IN  (IF us < 0 THEN "-" ELSE "")
        \o PadTo(total \div 3600, 2) \o ":"
        \o PadTo((total % 3600) \div 60, 2) \o ":"
        \o PadTo(total % 60, 2) \o "."
        \o PadTo(a % MicrosPerSecond, 6)

\* The timestamps the encoder reports, in microseconds, in the order it
\* reaches them: the first frames of an encode have a negative timestamp.
EncoderTimes == <<-40000, 0, 2000000>>
LineKinds == {"ms", "time", "na", "continue", "frame"}
\* A line of the encoder's -progress/-nostats output at timestamp us.
EncoderLine(kind, us) ==
    (CASE kind = "ms" -> MsLine(us)
       [] kind = "time" -> "out_time=" \o FmtOutTime(us)
       [] kind = "na" -> "out_time_ms=N/A"
       [] kind = "continue" -> "progress=continue"
       [] kind = "frame" -> "frame=1") \o "\n"
ExitCodes == {0, 1}

\* What the folder field can hold: nothing, the path of something that is
\* no folder, or a folder, given by its MP4 files in natural-sort order. A
\* file is given by what ffprobe reports as its duration in seconds (none
\* for a file it cannot read).
CClipKinds == {[readable |-> FALSE, secs |-> 0], [readable |-> TRUE, secs |-> 2]}
CFolders == SeqsUpTo(CClipKinds, MaxCClips)
FolderTexts ==
    {[kind |-> "blank", clips |-> <<>>], [kind |-> "file", clips |-> <<>>]}
    \cup {[kind |-> "dir", clips |-> F] : F \in CFolders}
OutfileTexts == {"", "out.mp4"}
FpsTexts == {"", "20", "0", "inf", "1e-320"}

\* float(fps_str): the decimal texts, and the two texts of the model whose
\* value is no decimal fraction.
FloatOf(s) ==
    LET t == Strip(s)
        r == PyFloat(t)
    IN  IF t = "inf" THEN [ok |-> TRUE, u |-> [kind |-> "inf", v |-> PosInf]]
        ELSE IF t = "1e-320"
        THEN [ok |-> TRUE, u |-> [kind |-> "denormal", v |-> Zero]]
        ELSE [ok |-> r.ok, u |-> [kind |-> "finite", v |-> r.val]]
\* user_fps > 0
PositiveFps(u) == u.kind # "finite" \/ u.v[1] > 0

\* x / y for y > 0 or y = inf
RatDiv(x, y) == IF y = PosInf THEN Zero ELSE RatMul(x, <<y[2], y[1]>>)
RatMin(x, y) == IF RatLeq(x, y) THEN x ELSE y
Hundred == Rat(100, 1)

\* get_duration_seconds (lines 42-48)
GetDurationSeconds(f) == IF f.readable THEN Rat(f.secs, 1) ELSE Zero
RECURSIVE SumDurations(_)
SumDurations(F) ==
    IF F = <<>> THEN Zero
    ELSE RatAdd(GetDurationSeconds(Head(F)), SumDurations(Tail(F)))

\* The widgets and fields the GUI thread's handlers work on; no dialog has
\* been shown when a handler starts.
CSelf ==
    [queue |-> c_queue, log |-> c_log, prog |-> c_prog, dialog |-> "",
     start_btn |-> c_start_btn, quit_btn |-> c_quit_btn,
     total_duration |-> c_total_duration, listfile |-> c_listfile]
CCommit(g) ==
    /\ c_queue' = g.queue
    /\ c_log' = g.log
    /\ c_prog' = g.prog
    /\ c_dialog' = g.dialog
    /\ c_start_btn' = g.start_btn
    /\ c_quit_btn' = g.quit_btn
    /\ c_total_duration' = g.total_duration
    /\ c_listfile' = g.listfile

ShowDialog(g, title) == [g EXCEPT !.dialog = title]
\* append_log (lines 212-214): the line at the end of the log
AppendLog(g, text) == [g EXCEPT !.log = text]
\* _set_progress_total (lines 216-224)
SetProgressTotal(g, seconds_total) ==
    LET t == IF RatLess(seconds_total, Zero) THEN Zero ELSE seconds_total
    IN  [g EXCEPT !.total_duration = t,
                  !.prog = IF RatLess(Zero, t) THEN Zero ELSE @]
\* _on_progress_seconds (lines 226-230)
OnProgressSeconds(g, seconds_done) ==
    IF RatLess(Zero, g.total_duration)
    THEN [g EXCEPT !.prog = RatMin(Hundred,
                       RatMul(RatDiv(seconds_done, g.total_duration), Hundred))]
    ELSE g

Done(rc) == [cb |-> "done", arg |-> rc]

\* after_done that trusts the run whatever the return code was
AfterDoneIgnoringCode(g, returncode) ==
    ShowDialog(AppendLog([g EXCEPT !.listfile = FALSE,
                                   !.start_btn = "normal",
                                   !.quit_btn = "normal"], "Done!"),
               "Success")

\* after_done (lines 290-305)
AfterDone(g, returncode) ==
    LET g1 == IF RatLeq(g.total_duration, Zero) THEN g
              ELSE [g EXCEPT !.prog = Hundred]
        g2 == [g1 EXCEPT !.listfile = FALSE,
                         !.start_btn = "normal",
                         !.quit_btn = "normal"]
    IN  IF returncode = 0
        THEN ShowDialog(AppendLog(g2, "Done!"), "Success")
        ELSE ShowDialog(AppendLog(g2, "ffmpeg exited with code"), "Failed")

\* The GUI thread runs one queued callback.
RunCallback(g, c) ==
    CASE c.cb = "log" -> AppendLog(g, c.arg)
      [] c.cb = "progress" -> OnProgressSeconds(g, c.arg)
      [] c.cb = "done" -> AfterDone(g, c.arg)

\* A worker that calls the GUI code itself
AfterDirect(g, c) == RunCallback(g, c)

\* self.after(0, f, *args), called on the worker thread: f(*args) is queued
\* for the GUI thread.
After(g, c) == [g EXCEPT !.queue = Append(@, c)]

RECURSIVE AfterAll(_, _)
AfterAll(g, calls) ==
    IF calls = <<>> THEN g ELSE AfterAll(After(g, Head(calls)), Tail(calls))

\* The form and the widgets as App.__init__ leaves them (lines 141-192);
\* the warning of lines 186-192 is shown when ffmpeg is not installed.
ConcatInit ==
    /\ e_ffmpeg \in BOOLEAN
    /\ c_folder_var = [kind |-> "blank", clips |-> <<>>]
    /\ c_outfile_var = ""
    /\ c_fps_var = "60"
    /\ c_speed_mode_var = TRUE
    /\ c_keep_audio_var = TRUE
    /\ c_total_duration = Zero
    /\ c_prog = Zero
    /\ c_log = ""
    /\ c_dialog = IF e_ffmpeg THEN "" ELSE "ffmpeg/ffprobe not found"
    /\ c_start_btn = "normal"
    /\ c_quit_btn = "normal"
    /\ c_queue = <<>>
    /\ c_listfile = FALSE
    /\ w_pc = "idle"
    /\ w_chain = None
    /\ w_exit = None
    /\ w_exc = FALSE
    /\ w_last = None
    /\ e_clock = 1

formvars == <<c_folder_var, c_outfile_var, c_fps_var, c_speed_mode_var,
              c_keep_audio_var>>
guivars == <<c_total_duration, c_prog, c_log, c_dialog, c_start_btn,
             c_quit_btn, c_listfile>>
wvars == <<w_pc, w_chain, w_exit, w_exc, w_last, e_clock>>
others == <<app, pvars, avars, xvars, nvars, e_ffmpeg>>

\* The form is edited between runs. Only start() reads the form, and it
\* cannot be clicked during a run, so an edit made during a run has the
\* effect of the same edit made right after the run's completion.
BetweenRuns == c_start_btn = "normal"

\* pick_folder (lines 194-200); a cancelled dialog changes nothing.
PickFolder ==
    /\ app = "concat"
    /\ BetweenRuns
    /\ \E F \in CFolders :
          /\ c_folder_var' = [kind |-> "dir", clips |-> F]
          /\ c_outfile_var' =
                IF c_outfile_var = "" THEN "out.mp4" ELSE c_outfile_var
    /\ CCommit(CSelf)
    /\ UNCHANGED <<others, wvars, c_fps_var, c_speed_mode_var,
                   c_keep_audio_var>>

\* The folder entry (line 151) is typed into.
TypeFolder ==
    /\ app = "concat"
    /\ BetweenRuns
    /\ \E k \in {"blank", "file"} : c_folder_var' = [kind |-> k, clips |-> <<>>]
    /\ CCommit(CSelf)
    /\ UNCHANGED <<others, wvars, c_outfile_var, c_fps_var, c_speed_mode_var,
                   c_keep_audio_var>>

\* pick_outfile (lines 202-210), or the output entry (line 155) is edited.
PickOutfile ==
    /\ app = "concat"
    /\ BetweenRuns
    /\ \E t \in OutfileTexts : c_outfile_var' = t
    /\ CCommit(CSelf)
    /\ UNCHANGED <<others, wvars, c_folder_var, c_fps_var, c_speed_mode_var,
                   c_keep_audio_var>>

\* The FPS entry (line 159) is edited.
TypeFps ==
    /\ app = "concat"
    /\ BetweenRuns
    /\ \E t \in FpsTexts : c_fps_var' = t
    /\ CCommit(CSelf)
    /\ UNCHANGED <<others, wvars, c_folder_var, c_outfile_var,
                   c_speed_mode_var, c_keep_audio_var>>

\* The two check buttons (lines 162 and 164).
ToggleSpeedMode ==
    /\ app = "concat"
    /\ BetweenRuns
    /\ c_speed_mode_var' = ~c_speed_mode_var
    /\ CCommit(CSelf)
    /\ UNCHANGED <<others, wvars, c_folder_var, c_outfile_var, c_fps_var,
                   c_keep_audio_var>>
ToggleKeepAudio ==
    /\ app = "concat"
    /\ BetweenRuns
    /\ c_keep_audio_var' = ~c_keep_audio_var
    /\ CCommit(CSelf)
    /\ UNCHANGED <<others, wvars, c_folder_var, c_outfile_var, c_fps_var,
                   c_speed_mode_var>>

\* start() that does not look for ffmpeg before it goes on
RejectionNoToolCheck(folder, outfile, fps, ffmpeg) ==
    IF folder.kind = "blank" THEN "Missing folder"
    ELSE IF folder.kind # "dir" THEN "Invalid folder"
    ELSE IF outfile = "" THEN "Missing output"
    ELSE IF ~(fps.ok /\ PositiveFps(fps.u)) THEN "Invalid FPS"
    ELSE IF folder.clips = <<>> THEN "No MP4 files"
    ELSE ""

\* The dialog start() ends with when it rejects the form ("" when it does
\* not), checks in the order of lines 239-257.
Rejection(folder, outfile, fps, ffmpeg) ==
    IF folder.kind = "blank" THEN "Missing folder"
    ELSE IF folder.kind # "dir" THEN "Invalid folder"
    ELSE IF outfile = "" THEN "Missing output"
    ELSE IF ~(fps.ok /\ PositiveFps(fps.u)) THEN "Invalid FPS"
    ELSE IF ~ffmpeg THEN "ffmpeg not found"
    ELSE IF folder.clips = <<>> THEN "No MP4 files"
    ELSE ""

\* start() that leaves the two buttons as they are
KeepButtons(g) == g

\* The buttons during the work (lines 275-277)
DisableButtons(g) ==
    [g EXCEPT !.start_btn = "disabled", !.quit_btn = "disabled"]

\* start (lines 232-328), a click on the Concatenate button.
Start ==
    /\ app = "concat"
    /\ c_start_btn = "normal"
    /\ LET folder == c_folder_var
           outfile == Strip(c_outfile_var)
           fps_str == IF Strip(c_fps_var) = "" THEN "60" ELSE Strip(c_fps_var)
           fps == FloatOf(fps_str)
           why == Rejection(folder, outfile, fps, e_ffmpeg)
           speed == SpeedOf(fps.u)
           total_sec == SumDurations(folder.clips)
           effective_total ==
               IF c_speed_mode_var /\ RatLess(Zero, speed)
               THEN RatDiv(total_sec, speed) ELSE total_sec
           g1 == SetProgressTotal(CSelf, effective_total)
           g2 == DisableButtons([g1 EXCEPT !.listfile = TRUE])
       IN  IF why # ""
           THEN /\ CCommit(ShowDialog(CSelf, why))
                /\ UNCHANGED wvars
           ELSE \E audio_present \in BOOLEAN :
                   /\ CCommit(AppendLog(g2, "Running ffmpeg"))
                   /\ w_pc' = "launch"
                   /\ w_chain' = IF /\ c_speed_mode_var
                                    /\ c_keep_audio_var
                                    /\ audio_present
                                 THEN Some(speed) ELSE None
                   /\ w_exit' = None
                   /\ w_exc' = FALSE
                   /\ w_last' = None
                   /\ e_clock' = 1
    /\ UNCHANGED <<others, formvars>>

\* The Tk main loop runs the callback at the head of its queue.
Deliver ==
    /\ app = "concat"
    /\ c_queue # <<>>
    /\ CCommit(RunCallback([CSelf EXCEPT !.queue = Tail(@)], Head(c_queue)))
    /\ UNCHANGED <<others, formvars, wvars>>

\* The worker's marshalled calls reach the queue; nothing else of the GUI
\* thread's state is the worker's to change.
WorkerCommit(g) == CCommit([g EXCEPT !.dialog = c_dialog])

\* The worker function returns: its locals and the encoder are gone.
WorkerReturns ==
    /\ w_pc' = "idle"
    /\ w_chain' = None
    /\ w_last' = None
    /\ e_clock' = 1

\* The worker enters run_ffmpeg_concat: the command is built (lines 76-102)
\* and the encoder launched (lines 104-107). _build_atempo_chain does not
\* return for an infinite speed.
WorkerLaunch ==
    /\ app = "concat"
    /\ w_pc = "launch"
    /\ w_pc' = IF w_chain = Some(PosInf) THEN "hung" ELSE "stream"
    /\ w_chain' = IF w_chain = Some(PosInf) THEN w_chain ELSE None
    /\ WorkerCommit(CSelf)
    /\ UNCHANGED <<others, formvars, w_exit, w_exc, w_last, e_clock>>

\* One pass of the loop over proc.stdout (lines 109-129): the encoder has
\* written a line at its current timestamp or a later one.
WorkerLine ==
    /\ app = "concat"
    /\ w_pc = "stream"
    /\ Len(c_queue) < MaxQueue
    /\ \E j \in e_clock .. Len(EncoderTimes), kind \in LineKinds :
          LET calls == HandleLine(EncoderLine(kind, EncoderTimes[j]))
          IN  /\ WorkerCommit(AfterAll(CSelf, calls))
              /\ e_clock' = j
              /\ w_last' = IF HasProgress(calls)
                           THEN Some(calls[1].arg) ELSE w_last
    /\ UNCHANGED <<others, formvars, w_pc, w_chain, w_exit, w_exc>>

\* The encoder's output ends and proc.wait() returns its exit code (line
\* 131); the worker queues the completion (line 325).
WorkerExit ==
    /\ app = "concat"
    /\ w_pc = "stream"
    /\ \E code \in ExitCodes :
          /\ w_exit' = Some(code)
          /\ WorkerCommit(After(CSelf, Done(code)))
    /\ WorkerReturns
    /\ UNCHANGED <<others, formvars, w_exc>>

\* Launching or streaming raises (lines 321-325): rc = 1, the error is
\* logged and the completion queued.
WorkerRaise ==
    /\ app = "concat"
    /\ \/ w_pc = "launch" /\ w_chain # Some(PosInf)
       \/ w_pc = "stream"
    /\ w_exc' = TRUE
    /\ WorkerCommit(After(After(CSelf, Log("Error")), Done(1)))
    /\ WorkerReturns
    /\ UNCHANGED <<others, formvars, w_exit>>

WorkerNext ==
    \/ WorkerLaunch
    \/ WorkerLine
    \/ WorkerExit
    \/ WorkerRaise

ConcatNext ==
    \/ PickFolder
    \/ TypeFolder
    \/ PickOutfile
    \/ TypeFps
    \/ ToggleSpeedMode
    \/ ToggleKeepAudio
    \/ Start
    \/ Deliver
    \/ WorkerLaunch
    \/ WorkerLine
    \/ WorkerExit
    \/ WorkerRaise

ConcatSpecInit ==
    app = "concat" /\ PlayerInit /\ AtempoOff /\ ParserOff /\ ConcatInit
    /\ NaturalOff
ConcatSpec == ConcatSpecInit /\ [][ConcatNext]_vars

-----------------------------------------------------------------------------
(* The player's state machine: one action per handler. *)

\* choose_folder, the dialog answered with folder F.
ChooseFolderTo(F) ==
    Commit(LoadFolder([Self EXCEPT !.folder_var = Some(F)], F))
ChooseFolder == \E F \in Folders : ChooseFolderTo(F)

\* choose_folder, the dialog cancelled.
ChooseFolderCancel == Commit(Self)

TogglePlay == Commit([Self EXCEPT !.playing = ~playing])

Step == \E delta \in {-1, 1} : Commit(StepHandler(Self, delta))

\* The Loop checkbutton.
ToggleLoop == Commit([Self EXCEPT !.loop_var = ~loop_var])

SliderPress == Commit([Self EXCEPT !.seeking = TRUE])

\* The user moves the slider to v (_on_slider_move only rewrites the status
\* line, which is a view of the state and not part of it).
SliderMove == \E v \in 0 .. slider_to : Commit([Self EXCEPT !.slider = v])

SliderRelease == Commit(SeekTo([Self EXCEPT !.seeking = FALSE], slider))

Tick == timer_alive /\ Commit(TimerTick(Self))

PlayerNext ==
    \/ ChooseFolder
    \/ ChooseFolderCancel
    \/ TogglePlay
    \/ Step
    \/ ToggleLoop
    \/ SliderPress
    \/ SliderMove
    \/ SliderRelease
    \/ Tick

Init == app = "player" /\ PlayerInit /\ AtempoOff /\ ParserOff /\ ConcatOff
    /\ NaturalOff
Next == PlayerNext
Spec == Init /\ [][Next]_vars

-----------------------------------------------------------------------------
(* Properties of the player *)

RECURSIVE SumFrames(_)
SumFrames(fs) ==
    IF fs = <<>> THEN 0 ELSE fs[1].frames + SumFrames(Tail(fs))

\* 0-based indices of the clips that hold at least one frame.
NonEmptyClips == {i \in 0 .. Len(files) - 1 : files[i + 1].frames > 0}

\* (i, l) addresses global frame g of the current table.
Addresses(i, l, g) ==
    /\ i \in 0 .. Len(files) - 1
    /\ 0 <= l /\ l < files[i + 1].frames
    /\ files[i + 1].start_frame + l = g

\* C1: with total_frames > 0, every integer g maps to the one pair (i, l) that
\* addresses clamp(g, 0, total_frames - 1); the first and last frame of every
\* clip map to (i, 0) and (i, frames_i - 1), and total_frames - 1 maps to the
\* last frame of the last non-empty clip.
C1_MapperCorrect ==
    (files # <<>> /\ total_frames > 0) =>
        /\ \A g \in -MaxSlack .. total_frames + MaxSlack :
              LET m == GlobalToFileLocal(files, total_frames, g)
                  gc == clamp(g, 0, total_frames - 1)
              IN  /\ Addresses(m[1], m[2], gc)
                  /\ \A i \in 0 .. Len(files) - 1 :
                        \A l \in 0 .. total_frames :
                            Addresses(i, l, gc) => <<i, l>> = m
        /\ \A i \in NonEmptyClips :
              /\ GlobalToFileLocal(files, total_frames,
                                   files[i + 1].start_frame) = <<i, 0>>
              /\ GlobalToFileLocal(files, total_frames,
                     files[i + 1].start_frame + files[i + 1].frames - 1)
                 = <<i, files[i + 1].frames - 1>>
        /\ \A i \in NonEmptyClips :
              (\A j \in NonEmptyClips : j <= i) =>
                  GlobalToFileLocal(files, total_frames, total_frames - 1)
                  = <<i, files[i + 1].frames - 1>>

\* A table of two clips, the first with several frames, the last with none.
C1_Witness ==
    /\ Len(files) = 2
    /\ files[1].frames = MaxFrames
    /\ files[2].frames = 0
    /\ shown # None

\* C2: the loaded table is contiguous and gapless from 0, total_frames is the
\* sum of the clips' frames, and the table lists exactly the files of its
\* folder that open, in the folder's order.
C2_Contiguous ==
    files # <<>> =>
        LET F == files[1].path.folder
            opened == {k \in 1 .. Len(F) : F[k].openable}
        IN  /\ files[1].start_frame = 0
            /\ \A i \in 1 .. Len(files) - 1 :
                  files[i + 1].start_frame
                  = files[i].start_frame + files[i].frames
            /\ total_frames = SumFrames(files)
            /\ total_frames > 0
            /\ {files[i].path.k : i \in 1 .. Len(files)} = opened
            /\ \A i \in 1 .. Len(files) :
                  /\ files[i].path.folder = F
                  /\ files[i].frames = F[files[i].path.k].frames
                  /\ \A j \in 1 .. Len(files) :
                        i < j => files[i].path.k < files[j].path.k

\* A folder whose first file does not open and whose second does.
C2_Witness ==
    /\ Len(files) = 1
    /\ Len(files[1].path.folder) = 2
    /\ files[1].path.k = 2
    /\ files[1].frames = MaxFrames

\* C3: whenever a folder is loaded, 0 <= cur_global_frame < total_frames.
C3_InRange ==
    files # <<>> => (0 <= cur_global_frame /\ cur_global_frame < total_frames)

RECURSIVE SumSeconds(_)
SumSeconds(fs) ==
    IF fs = <<>> THEN Zero
    ELSE RatAdd(IF fs[1].frames > 0 THEN Rat(fs[1].frames, fs[1].fps) ELSE Zero,
                SumSeconds(Tail(fs)))

\* The table describes the MP4 files of folder F: it lists the files of F
\* that open, with their frame counts, and the totals are theirs. (A folder
\* with no frame at all is also taken as described by the empty table.)
Describes(F) ==
    LET opened == {k \in 1 .. Len(F) : F[k].openable}
    IN  \/ /\ files = <<>>
           /\ \A k \in opened : F[k].frames = 0
        \/ /\ Len(files) = Cardinality(opened)
           /\ {files[i].path : i \in 1 .. Len(files)}
              = {Path(F, k) : k \in opened}
           /\ \A i \in 1 .. Len(files) :
                 files[i].frames = FileOf(files[i].path).frames
           /\ total_frames = SumFrames(files)
           /\ total_seconds = SumSeconds(files)

\* C10: every choose_folder that selects a folder leaves a table that
\* describes the folder shown in the folder field, and the playhead at 0.
C10_RebuiltOnChoose ==
    [][ChooseFolder =>
        (folder_var # None /\ Describes(folder_var[1])
         /\ cur_global_frame = 0)']_vars

-----------------------------------------------------------------------------
(* The concatenator's runs *)

\* C6: within one encode run the samples handed to the progress callback
\* never decrease (and so neither does the percentage, which
\* _on_progress_seconds computes from each sample by an increasing
\* function). The encoder's own timestamps never decrease: e_clock only
\* advances.
C6_Monotone ==
    [][(w_last # None /\ w_last' # None)
         => RatLeq(w_last[1], w_last'[1])]_vars

\* A run has just completed: after_done has shown its message.
Completed == c_dialog \in {"Success", "Failed"}
\* Every completion shows one of the two messages.
CompletionShown ==
    (Deliver /\ Head(c_queue).cb = "done") => Completed'

\* C7 as stated: the success message is shown exactly when the external
\* process's exit code is 0 and the failure message exactly when it is
\* non-zero.
C7_Original ==
    /\ [](Completed =>
            /\ w_exit # None
            /\ (c_dialog = "Success") = (w_exit[1] = 0))
    /\ [][CompletionShown]_vars

\* C7, amended: the success message is shown exactly when the process ran
\* and exited with code 0; the failure message exactly when it exited with
\* a non-zero code or when launching or streaming raised, in which case no
\* exit code exists and the worker reports 1 in its place. Log lines and
\* progress samples have no part in it.
C7_OutcomeByReturnCode ==
    /\ [](Completed =>
            /\ (c_dialog = "Success") = (w_exit = Some(0))
            /\ (c_dialog = "Failed") = (w_exc \/ w_exit = Some(1))
            /\ w_exc = (w_exit = None))
    /\ [][CompletionShown]_vars

\* The failure message after a run whose encoder gave no exit code.
C7_Witness == c_dialog = "Failed" /\ w_exc /\ w_exit = None

\* "done" is the last entry of the queue if it is in it at all.
DoneIsLast ==
    \A i \in 1 .. Len(c_queue) : c_queue[i].cb = "done" => i = Len(c_queue)
\* The worker only appends to the queue.
QueueGrows ==
    /\ Len(c_queue') >= Len(c_queue)
    /\ SubSeq(c_queue', 1, Len(c_queue)) = c_queue

\* C9: the worker thread changes no widget and no field of the GUI: all it
\* does to the GUI is append callbacks to Tk's queue, the completion last;
\* when the completion has run, nothing of the run is left in the queue.
C9_Marshalled ==
    /\ [][WorkerNext => (UNCHANGED <<guivars, formvars>> /\ QueueGrows)]_vars
    /\ []DoneIsLast
    /\ [](w_pc # "idle" => \A i \in 1 .. Len(c_queue) : c_queue[i].cb # "done")
    /\ [](c_start_btn = "normal" => c_queue = <<>>)

\* A progress update and the completion behind it, both still queued.
C9_Witness ==
    /\ Len(c_queue) = 2
    /\ c_queue[1].cb = "progress"
    /\ c_queue[2].cb = "done"
    /\ w_pc = "idle"

-----------------------------------------------------------------------------
(* The two programs, either of which the user may have started *)

AppsInit ==
    \/ Init
    \/ ConcatSpecInit
AppsNext ==
    \/ ChooseFolder
    \/ ChooseFolderCancel
    \/ TogglePlay
    \/ Step
    \/ ToggleLoop
    \/ SliderPress
    \/ SliderMove
    \/ SliderRelease
    \/ Tick
    \/ PickFolder
    \/ TypeFolder
    \/ PickOutfile
    \/ TypeFps
    \/ ToggleSpeedMode
    \/ ToggleKeepAudio
    \/ Start
    \/ Deliver
    \/ WorkerLaunch
    \/ WorkerLine
    \/ WorkerExit
    \/ WorkerRaise
AppsSpec == AppsInit /\ [][AppsNext]_vars

\* The form passes the checks start() makes before it looks for ffmpeg.
FormFilled ==
    /\ c_folder_var.kind = "dir"
    /\ c_outfile_var # ""
    /\ c_fps_var \in {"", "20", "60", "inf", "1e-320"}
\* The folder the player has just been pointed at has a file that does not
\* open.
HasUnopenable(F) == \E k \in 1 .. Len(F) : ~F[k].openable
HasFrames(F) == \E k \in 1 .. Len(F) : F[k].openable /\ F[k].frames > 0

\* choose_folder has selected a folder with a file that does not open.
ChoiceWithUnopenable ==
    /\ folder_var' # None
    /\ HasUnopenable(folder_var'[1])
    /\ ChooseFolderTo(folder_var'[1])

\* Missing tool, empty folder and non-zero exit code each get their dialog.
ToolFolderExitSurfaced ==
    /\ (FormFilled /\ ~e_ffmpeg /\ Start)
          => (c_dialog' = "ffmpeg not found" /\ w_pc' = "idle")
    /\ (FormFilled /\ e_ffmpeg /\ c_folder_var.clips = <<>> /\ Start)
          => (c_dialog' = "No MP4 files" /\ w_pc' = "idle")
    /\ (folder_var' = Some(<<>>) /\ ChooseFolderTo(<<>>))
          => dialog' = "No videos"
    /\ (c_queue # <<>> /\ Head(c_queue).cb = "done" /\ Head(c_queue).arg # 0
          /\ Deliver)
          => c_dialog' = "Failed"
\* Nothing but the user's click starts a run, and nothing but the user's
\* choice of a folder loads one.
NoRetry ==
    /\ (w_pc = "idle" /\ w_pc' # "idle") => (Start /\ c_start_btn = "normal")
    /\ (files' # files \/ folder_var' # folder_var)
          => (folder_var' # None /\ ChooseFolderTo(folder_var'[1]))

\* C8 as stated: each of the four error conditions gets a dialog, a clip
\* that cannot be opened included, and nothing is retried on its own.
C8_Original ==
    /\ [][ToolFolderExitSurfaced]_vars
    /\ [][ChoiceWithUnopenable => dialog' # ""]_vars
    /\ [][NoRetry]_vars

\* C8, amended: missing tool, empty folder and non-zero exit code each get
\* a dialog and nothing is retried on its own; a clip that cannot be
\* opened gets a dialog ("No frames") only when no clip of the folder
\* yields a frame, and is otherwise left out of the table without a word.
C8_ErrorsSurfaced ==
    /\ [][ToolFolderExitSurfaced]_vars
    /\ [][ChoiceWithUnopenable
            => IF HasFrames(folder_var'[1])
               THEN /\ dialog' = ""
                    /\ \A i \in 1 .. Len(files') :
                          FileOf(files'[i].path).openable
               ELSE dialog' = "No frames"]_vars
    /\ [][NoRetry]_vars

\* A folder with a clip that does not open has been loaded without a dialog.
C8_Witness ==
    /\ folder_var # None
    /\ HasUnopenable(folder_var[1])
    /\ files # <<>>
    /\ \A i \in 1 .. Len(files) : files[i].path.folder = folder_var[1]
    /\ dialog = ""
    /\ cur_global_frame = 0


-----------------------------------------------------------------------------
(* natural_keys (dashcam_clips_viewer.py:14-18, concat_video_clips.py:     *)
(* 19-22), the sort key of both programs, on a pair of file names.         *)

\* In a file name of the model "^" stands for U+00B2, SUPERSCRIPT TWO: a
\* character that str.isdigit() accepts, that \d does not match and that
\* int() rejects.
OtherDigits == {"^"}
\* str.isdigit() of one character
IsDigitChar(c) == c \in Digits \cup OtherDigits
\* \d of one character
MatchesD(c) == c \in Digits

\* The code point of a character of the model's names.
Ord(c) ==
    CASE c = "." -> 46 [] c = "0" -> 48 [] c = "1" -> 49 [] c = "2" -> 50
      [] c = "B" -> 66 [] c = "a" -> 97 [] c = "b" -> 98 [] c = "c" -> 99
      [] c = "i" -> 105 [] c = "l" -> 108 [] c = "p" -> 112 [] c = "^" -> 178
\* str.lower()
LowerChar(c) == IF c = "B" THEN "b" ELSE c
RECURSIVE Lower(_)
Lower(s) == IF s = "" THEN "" ELSE LowerChar(Char(s, 1)) \o Lower(Drop(s, 1))

\* The length of the longest prefix of s of characters \d matches (digits =
\* TRUE) or does not match (digits = FALSE).
RECURSIVE RunLen(_, _)
RunLen(s, digits) ==
    IF s = "" \/ MatchesD(Char(s, 1)) # digits THEN 0
    ELSE 1 + RunLen(Drop(s, 1), digits)

\* re.split(r'(\d+)', text): text, digits, text, ..., text; the pieces of
\* text may be empty.
RECURSIVE ReSplit(_)
ReSplit(text) ==
    LET n == RunLen(text, FALSE)
        rest == Drop(text, n)
        d == RunLen(rest, TRUE)
    IN  IF rest = "" THEN <<text>>
        ELSE <<SubSeq(text, 1, n), SubSeq(rest, 1, d)>> \o ReSplit(Drop(rest, d))

\* atoi (line 16-17): int(tok) if tok.isdigit() else tok.lower(). A key
\* element is the number n (int = TRUE) or the string s; int() raises
\* ValueError (ok = FALSE) on a character that is no decimal digit.
Atoi(tok) ==
    IF tok # "" /\ \A i \in 1 .. Len(tok) : IsDigitChar(Char(tok, i))
    THEN [ok |-> AllDigits(tok), int |-> TRUE,
          n |-> IF AllDigits(tok) THEN Numeral(tok) ELSE 0, s |-> ""]
    ELSE [ok |-> TRUE, int |-> FALSE, n |-> 0, s |-> Lower(tok)]

\* natural_keys(text)
natural_keys(text) ==
    LET toks == ReSplit(text)
    IN  [i \in 1 .. Len(toks) |-> Atoi(toks[i])]

\* s < t for two strings, by code points
RECURSIVE StrLess(_, _)
StrLess(s, t) ==
    IF t = "" THEN FALSE
    ELSE IF s = "" THEN TRUE
    ELSE IF Char(s, 1) # Char(t, 1) THEN Ord(Char(s, 1)) < Ord(Char(t, 1))
    ELSE StrLess(Drop(s, 1), Drop(t, 1))

\* The comparison sorted() makes of two keys: "lt", "eq" or "gt", or the
\* exception raised while a key is built (ValueError) or while a number is
\* compared with a string (TypeError).
RECURSIVE CompareKeys(_, _, _)
CompareKeys(k1, k2, i) ==
    IF i > Len(k1) /\ i > Len(k2) THEN "eq"
    ELSE IF i > Len(k1) THEN "lt"
    ELSE IF i > Len(k2) THEN "gt"
    ELSE IF k1[i].int # k2[i].int THEN "TypeError"
    ELSE IF k1[i].int
    THEN (IF k1[i].n < k2[i].n THEN "lt"
          ELSE IF k1[i].n > k2[i].n THEN "gt"
          ELSE CompareKeys(k1, k2, i + 1))
    ELSE (IF StrLess(k1[i].s, k2[i].s) THEN "lt"
          ELSE IF StrLess(k2[i].s, k1[i].s) THEN "gt"
          ELSE CompareKeys(k1, k2, i + 1))
KeyOk(k) == \A i \in 1 .. Len(k) : k[i].ok
CompareNames(a, b) ==
    LET k1 == natural_keys(a)
        k2 == natural_keys(b)
    IN  IF ~(KeyOk(k1) /\ KeyOk(k2)) THEN "ValueError"
        ELSE CompareKeys(k1, k2, 1)

NameChars == {"a", "B", "0", "1", "^"}
RECURSIVE NamesUpTo(_)
NamesUpTo(n) ==
    IF n = 0 THEN {""}
    ELSE NamesUpTo(n - 1) \cup {s \o c : s \in NamesUpTo(n - 1), c \in NameChars}
FileNames == NamesUpTo(MaxNameLen) \cup {"clip2", "clip10", "clip1^2"}

\* The sort comes to compare two names of the folder: the one, then the
\* other.
NaturalPick ==
    /\ Len(n_names) < 2
    /\ \E a \in FileNames : n_names' = Append(n_names, a)
    /\ UNCHANGED <<app, pvars, avars, xvars, cvars, n_out>>

\* It builds the two keys and compares them.
NaturalCompare ==
    /\ Len(n_names) = 2
    /\ n_out = ""
    /\ n_out' = CompareNames(n_names[1], n_names[2])
    /\ UNCHANGED <<app, pvars, avars, xvars, cvars, n_names>>

\* The comparison is over.
NaturalReturn ==
    /\ n_out # ""
    /\ n_names' = <<>>
    /\ n_out' = ""
    /\ UNCHANGED <<app, pvars, avars, xvars, cvars>>

NaturalNext ==
    \/ NaturalPick
    \/ NaturalCompare
    \/ NaturalReturn
NaturalInit ==
    app = "natural" /\ PlayerInit /\ AtempoOff /\ ParserOff /\ ConcatOff
    /\ NaturalOff
NaturalSpec == NaturalInit /\ [][NaturalNext]_vars

\* The names a and b differ in one digit run only, which writes m in a and
\* n in b.
DifferInOneRun(a, b, m, n) ==
    \E pre \in {"", "a", "B", "clip", "a1B"}, suf \in {"", "a", "B0"} :
        /\ a = pre \o Dec(m) \o suf
        /\ b = pre \o Dec(n) \o suf

\* C11: the key orders names by the numbers their digit runs write and
\* without regard to case in between: "clip2" is before "clip10", of two
\* names that differ in one digit run the one with the smaller number is
\* first, and every comparison of two keys is defined: no key fails to be
\* built and no number meets a string.
C11_NaturalOrder ==
    n_out # "" =>
        /\ n_out \in {"lt", "eq", "gt"}
        /\ n_names = <<"clip2", "clip10">> => n_out = "lt"
        /\ Lower(n_names[1]) = Lower(n_names[2]) => n_out = "eq"
        /\ n_out # "lt" =>
              \A m \in 0 .. MaxNumber, n \in 0 .. MaxNumber :
                  ~(m < n /\ DifferInOneRun(n_names[1], n_names[2], m, n))

-----------------------------------------------------------------------------
(* Playback left to itself: the user prepares the player while it is       *)
(* paused, presses Play and then only the timer acts. _timer_tick ends by  *)
(* rescheduling itself with self.after (line 314, line 299), and Tk's main *)
(* loop runs a scheduled callback once its delay is over: the tick is      *)
(* weakly fair as long as no exception has lost the rescheduling.          *)


\* What the user does while nothing plays.
Paused == ~(playing /\ files # <<>>) /\ PlayerNext

\* Lines 302-307 after a read of capture s: a frame came or not.
AfterRead(s) ==
    IF CapReadOk(s)
    THEN \E s1 \in {CapRead(s)}, frame \in {CapFrame(s)} :
             \E s2 \in {TickShow(s1, frame)} : Commit(s2)
    ELSE Commit(s)

\* _timer_tick while a folder plays: the handler of TimerTick, each of its
\* locals bound once; TLC evaluates ENABLED of an action in this form only.
Playback ==
    /\ playing /\ files # <<>> /\ timer_alive
    /\ \E m \in {GlobalToFileLocal(files, total_frames, cur_global_frame)} :
       \E s1 \in {OpenCaptureForFile(Self, m[1])} :
         IF s1.cap = None
         THEN Commit([Raise(s1) EXCEPT !.timer_alive = FALSE])
         ELSE
         \E s2 \in {IF Abs(s1.cap[1].pos - m[2]) > 1
                    THEN CapSet(s1, m[2]) ELSE s1} :
           IF CapReadOk(s2) THEN AfterRead(s2)
           ELSE IF m[1] + 1 < Len(files)
           THEN \E s3 \in {[OpenCaptureForFile(s2, m[1] + 1) EXCEPT
                               !.cur_global_frame =
                                   files[m[1] + 2].start_frame]} :
                    AfterRead(s3)
           ELSE IF loop_var
           THEN \E s3 \in {SeekTo(s2, 0)} :
                    IF s3.exc THEN Commit([s3 EXCEPT !.timer_alive = FALSE])
                    ELSE AfterRead(s3)
           ELSE Commit([s2 EXCEPT !.playing = FALSE])

\* Playback is the step Tick takes while a folder plays.
PlaybackIsTick == [][Playback <=> (playing /\ files # <<>> /\ Tick)]_vars

PlaybackNext ==
    \/ Paused
    \/ Playback
PlaybackSpec == Init /\ [][PlaybackNext]_vars /\ WF_vars(Playback)

\* The player plays a loaded folder and its timer is alive.
Playing == playing /\ files # <<>> /\ timer_alive
\* The playhead is where the loop restarts: seek_to(0) shows frame 0 and the
\* read of the same tick goes on to frame 1.
AtRestart == cur_global_frame <= 1

\* C12: playback reaches the end of the playlist. With Loop off, playing
\* becomes false in the end; with Loop on, the playhead comes back to the
\* beginning and the player goes on playing. For every clip table a load
\* accepts, those with trailing clips of 0 frames included.
C12_ReachesEnd ==
    /\ (Playing /\ ~loop_var) ~> (~playing \/ ~timer_alive)
    /\ (Playing /\ loop_var) ~> ((playing /\ AtRestart) \/ ~timer_alive)

-----------------------------------------------------------------------------
(* The playhead and the picture.                                            *)

\* The global index of the frame on display: the start of its clip in the
\* clip table plus its place in the clip.
ShownGlobal ==
    LET i == CHOOSE i \in 1 .. Len(files) : files[i].path = shown[1].path
    IN  files[i].start_frame + shown[1].local

\* C13: whenever a handler has put a frame on display (seek_to, step, a
\* folder load, a timer tick whose read succeeded), cur_global_frame is the
\* global index of that frame, also when the tick has gone over from one clip
\* to the next.
C13_PointerIsShown ==
    [][shown' # shown => cur_global_frame' = ShownGlobal']_vars

-----------------------------------------------------------------------------
(* The capture behind the clip table.                                       *)

\* C14: while the clip table is not empty a capture is open, cur_file_idx
\* is the index of the clip it was opened on, and no handler (step, seek_to,
\* slider release, a playing tick) has come upon a missing capture,
\* whatever folders were loaded before, those whose load failed included.
C14_CaptureOpen ==
    files # <<>> =>
        /\ cap # None
        /\ cur_file_idx \in 0 .. Len(files) - 1
        /\ cap[1].path = files[cur_file_idx + 1].path
        /\ ~exc

-----------------------------------------------------------------------------
(* One encode run at a time.                                                *)

\* A run is active from the start of its worker thread until its completion
\* action has run on the GUI thread: the worker has not returned, or its
\* after_done is still in the queue.
DoneQueued == \E i \in 1 .. Len(c_queue) : c_queue[i].cb = "done"
RunActive == w_pc # "idle" \/ DoneQueued
ButtonsDisabled == c_start_btn = "disabled" /\ c_quit_btn = "disabled"

\* C15: while a run is active the Concatenate and Quit buttons are
\* disabled, and start() starts a worker only when no run is active: there
\* is at most one encode run at a time.
C15_OneRun ==
    [][/\ RunActive' => ButtonsDisabled'
       /\ (c_start_btn' = "disabled" /\ Start) => ~RunActive]_vars

\* The worker has returned and its completion action waits in the queue of
\* the GUI thread: the run is still active, the buttons still disabled.
C15_Witness == w_pc = "idle" /\ DoneQueued /\ ButtonsDisabled

-----------------------------------------------------------------------------
(* The run to its completion. The worker is a thread of its own (line 328)  *)
(* and the scheduler lets it run; the encoder, once launched, exits; Tk's   *)
(* main loop (line 336) runs the callbacks that self.after(0, ...) queued.  *)

RunsSpec ==
    /\ ConcatSpecInit
    /\ [][ConcatNext]_vars
    /\ WF_vars(WorkerLaunch)
    /\ WF_vars(WorkerExit)
    /\ WF_vars(Deliver)

\* The completion action of a run is in the queue at most once, and only
\* when the worker has returned.
DoneOnce ==
    /\ \A i, j \in 1 .. Len(c_queue) :
          c_queue[i].cb = "done" /\ c_queue[j].cb = "done" => i = j
    /\ DoneQueued => w_pc = "idle"

\* The GUI thread runs a completion action: the buttons are enabled again
\* and the list file is gone.
Completes ==
    (c_queue # <<>> /\ Head(c_queue).cb = "done" /\ c_queue' = Tail(c_queue))
        => (c_start_btn' = "normal" /\ c_quit_btn' = "normal" /\ ~c_listfile')

\* start() ends with an error dialog: no list file, no worker, the buttons
\* as they were (enabled).
Rejects ==
    (Start /\ c_dialog' # "")
        => (/\ UNCHANGED <<c_listfile, c_start_btn, c_quit_btn, wvars>>
            /\ ~c_listfile' /\ c_start_btn' = "normal" /\ w_pc' = "idle")

=============================================================================
